---- MODULE Spec2Model ----
(***************************************************************************)
(* State-machine model of the iterative DNS resolver of src/resolver.py.   *)
(*                                                                         *)
(* A domain name is the sequence of its labels, leaf first, ending with    *)
(* the empty root label (dns.name.Name.labels): the root is <<"">> and     *)
(* www.ex.com. is <<"www", "ex", "com", "">>.  A cache is a function whose  *)
(* DOMAIN is the set of keys present (a Python dict / NameDict).           *)
(* The transport (query.udp) is the environment: each pending query either *)
(* times out or returns any response of the set Responses.                 *)
(***************************************************************************)
EXTENDS Integers, Sequences, FiniteSets, TLC

VARIABLES
    answer_cache,    \* self.answer_cache: name -> (rr type -> rendered text)
    referral_cache,  \* self.referral_cache: name -> (rr type -> list)
    max_depth,       \* self.referral_cache.max_depth (NameDict bookkeeping)
    latencies,       \* self.latencies
    pc,              \* "idle" | "query" (query.udp pending) | "crashed"
    error,           \* the uncaught exception when pc = "crashed"
    req,             \* <<host, rr_type>> of the running / last top-level resolve
    host,            \* the name whose deepest match was taken last (local `host`)
    rr_type,         \* rr_type argument of the running _resolve_domain
    deepest_match,   \* deepest_match argument of the running _resolve_domain
    idx,             \* position of the for loop in deepest_match[1][rd.NS]
    received,        \* the last response query.udp returned to the running / last resolve
    verdict,         \* what _handle_response made of it: "final", "deeper", "chase", "raised"
    chase,           \* rr_set locals of the suspended _cname_chase frames, outermost first
    step_log,        \* <<nameserver, address>> of the queries sent by the running _resolve_domain
    nqueries,        \* number of query.udp calls of the running / last resolve
    frames,          \* frames of _resolve_domain, _handle_response, _cname_chase on the call stack
    last,            \* what the last finished resolve printed: [req, answer, nqueries]
    ncalls           \* number of resolve commands executed so far

vars == <<answer_cache, referral_cache, max_depth, latencies, pc, error, req, host,
          rr_type, deepest_match, idx, received, verdict, chase, step_log, nqueries,
          frames, last, ncalls>>

----------------------------------------------------------------------------
(* Bounds of the exploration *)

\* Spec: one command explored in depth.
MaxResolves == 1   \* resolve commands per run
MaxQueries == 3    \* query.udp calls per resolve command
MaxChase == 2      \* nested _cname_chase frames

\* SpecCalls: sequences of commands, each explored less deeply.
MaxCalls == 2        \* resolve commands per run
MaxCallQueries == 2  \* query.udp calls per resolve command
MaxCallChase == 1    \* nested _cname_chase frames

----------------------------------------------------------------------------
(* The interpreter's call stack *)

\* Frames below _resolve_domain: <module>, main, execute_command, resolve.
BaseFrames == 4

\* sys.getrecursionlimit() of CPython, which the program never changes: a
\* call that would make the stack deeper raises RecursionError.  (Frames of
\* library calls and prints made by the innermost frame are not counted.)
RecursionLimit == 1000

----------------------------------------------------------------------------
(* Record types (dns.rdatatype) and names *)

A == "A"
NS == "NS"
CNAME == "CNAME"
SOA == "SOA"
AAAA == "AAAA"
DS == "DS"
TXT == "TXT"

None == [none |-> TRUE]
empty == << >>
root == <<"">>
a_root == <<"a", "root-servers", "net", "">>
b_root == <<"b", "root-servers", "net", "">>
com == <<"com", "">>
ex_com == <<"ex", "com", "">>
www == <<"www", "ex", "com", "">>
alias == <<"al", "ex", "com", "">>
deep == <<"d", "www", "ex", "com", "">>
ns_com == <<"ns", "com", "">>
ns_ex == <<"ns", "ex", "com", "">>

Names == {root, a_root, b_root, com, ex_com, www, alias, deep, ns_com, ns_ex}

\* The (host, rr_type) pairs the command file asks for.
Requests == {<<www, A>>, <<alias, TXT>>, <<deep, A>>, <<a_root, A>>}

\* Elapsed wall-clock time of one _resolve_domain loop (end - start).
Elapsed == {1}

----------------------------------------------------------------------------
(* Messages: an rdata item, an rrset, a response *)

Item(t, v) == [rdtype |-> t, val |-> v]
RRset(n, t, items) == [name |-> n, rdtype |-> t, items |-> items]
Message(rc, an, au, ad) == [rcode |-> rc, answer |-> an, authority |-> au, additional |-> ad]

cname_alias == RRset(alias, CNAME, <<Item(CNAME, www), Item(CNAME, ex_com)>>)
cname_ex == RRset(ex_com, CNAME, <<Item(CNAME, www)>>)
a_www == RRset(www, A, <<Item(A, "93.184.216.34")>>)
ns_of_com == RRset(com, NS, <<Item(NS, ns_com)>>)
ds_of_com == RRset(com, DS, <<Item(DS, "ds-com")>>)
ns_of_ex == RRset(ex_com, NS, <<Item(NS, ns_com), Item(NS, ns_ex)>>)
ns_of_ex_rev == RRset(ex_com, NS, <<Item(NS, ns_ex), Item(NS, ns_com)>>)
ns_of_root == RRset(root, NS, <<Item(NS, b_root)>>)
soa_of_ex == RRset(ex_com, SOA, <<Item(SOA, "soa-ex")>>)
glue_ns_com == RRset(ns_com, A, <<Item(A, "10.0.0.1"), Item(A, "10.0.0.2")>>)
glue6_ns_com == RRset(ns_com, AAAA, <<Item(AAAA, "fd00::1")>>)
txt_ns_com == RRset(ns_com, TXT, <<Item(TXT, "sig")>>)

r_error == Message(3, <<cname_alias>>, <<ns_of_ex>>, <<glue_ns_com>>)
r_answer == Message(0, <<a_www>>, << >>, << >>)
r_cname == Message(0, <<a_www, cname_alias>>, << >>, << >>)
r_cname2 == Message(0, <<cname_ex>>, << >>, << >>)
r_referral == Message(0, << >>, <<ns_of_com, ds_of_com>>, <<glue_ns_com, glue6_ns_com>>)
r_noglue == Message(0, << >>, <<ns_of_ex>>, << >>)
r_negative == Message(0, << >>, <<soa_of_ex, ns_of_ex_rev>>, <<glue_ns_com>>)
r_badglue == Message(0, << >>, <<ns_of_com>>, <<glue_ns_com, txt_ns_com>>)
r_samezone == Message(0, << >>, <<ns_of_root>>, << >>)

\* What query.udp may return, whatever was asked.
Responses == {r_error, r_answer, r_cname, r_cname2, r_referral, r_noglue,
              r_negative, r_badglue, r_samezone}

----------------------------------------------------------------------------
(* dns.namedict.NameDict, as the resolver uses it *)

\* NameDict.__setitem__ bookkeeping: max_depth is the longest key ever stored.
update_max_depth(md, key) == IF Len(key) > md THEN Len(key) ELSE md

\* name[-k:], the ancestor of `name` that has k labels.
Suffix(name, k) == SubSeq(name, Len(name) - k + 1, Len(name))

RECURSIVE scan_suffixes(_, _, _)
scan_suffixes(cache, name, k) ==
    IF k = 0
    THEN <<empty, << >> >>          \* self[dns.name.empty]: KeyError
    ELSE IF Suffix(name, k) \in DOMAIN cache
         THEN <<Suffix(name, k), cache[Suffix(name, k)]>>
         ELSE scan_suffixes(cache, name, k - 1)

\* Mutant: the lookup stops at the shortest ancestor, the root.
shallowest_match(cache, md, name) == scan_suffixes(cache, name, 1)

\* NameDict.get_deepest_match(name): try the suffixes of `name` from
\* min(len(name), max_depth) labels down to one label (the root).
get_deepest_match(cache, md, name) ==
    scan_suffixes(cache, name, IF Len(name) > md THEN md ELSE Len(name))

\* Mutant: the new values are appended to the list already stored.
put_merging(cache, name, t, v) ==
    IF name \in DOMAIN cache
    THEN [cache EXCEPT ![name] = (t :> (IF t \in DOMAIN @ THEN @[t] \o v ELSE v)) @@ @]
    ELSE (name :> (t :> v)) @@ cache

\* d[name][t] = v, creating d[name] = {} first when the name is absent.
put(cache, name, t, v) ==
    IF name \in DOMAIN cache
    THEN [cache EXCEPT ![name] = (t :> v) @@ @]
    ELSE (name :> (t :> v)) @@ cache

\* rr_type in d[name], for a name that may be absent.
has(cache, name, t) == name \in DOMAIN cache /\ t \in DOMAIN cache[name]

----------------------------------------------------------------------------
(* Conversions of the DNS library *)

\* Message.to_text(): the rendering of a message, a text and no longer a message.
to_text(msg) == [text |-> msg]

\* Rdata.to_text() of an item stored as opaque text.
item_to_text(item) == [text |-> item.val]

\* Canonical (wire-format) order of the names, smallest first: rdata of a
\* CNAME rrset compare by the wire form of their targets.
wire_order == <<root, a_root, b_root, deep, alias, ex_com, ns_ex, ns_com, com, www>>
Rank(n) == CHOOSE i \in 1..Len(wire_order) : wire_order[i] = n

\* min(rr_set) of a CNAME rrset.
min_item(rr_set) ==
    CHOOSE it \in {rr_set.items[i] : i \in 1..Len(rr_set.items)} :
        \A i \in 1..Len(rr_set.items) : Rank(it.val) <= Rank(rr_set.items[i].val)

\* item.address exists on A and AAAA rdata only.
has_address(item) == item.rdtype \in {A, AAAA}

----------------------------------------------------------------------------
(* The resolver.  Each operator takes the program state `s` (a record of    *)
(* the variables) and yields the state in which the program next waits for *)
(* the transport, has finished the command, or has died of an exception.   *)

NoCall == [req |-> << >>, answer |-> None, nqueries |-> 0, latency |-> 0]

\* sum(self.latencies)
RECURSIVE sum(_)
sum(seq) == IF seq = << >> THEN 0 ELSE Head(seq) + sum(Tail(seq))
NoMatch == <<empty, << >> >>

\* An uncaught exception: main() has no handler, the process ends.
raise(s, exc) == [s EXCEPT !.pc = "crashed", !.error = exc]

\* Mutant: a None result is stored in the answer cache like an answer.
resolve_finish_caches_none(s, answer) ==
    LET text == IF answer = None THEN None ELSE to_text(answer)
    IN [s EXCEPT
          !.answer_cache = put(@, s.req[1], s.req[2], text),
          !.last = [req |-> s.req, answer |-> text, nqueries |-> s.nqueries,
                    latency |-> sum(s.latencies)],
          !.latencies = <<0>>,
          !.frames = 0,
          !.pc = "idle"]

\* Mutant: the final answer is printed but not stored in the answer cache.
resolve_finish_uncached(s, answer) ==
    [s EXCEPT
       !.last = [req |-> s.req,
                 answer |-> IF answer = None THEN None ELSE to_text(answer),
                 nqueries |-> s.nqueries, latency |-> sum(s.latencies)],
       !.latencies = <<0>>,
       !.frames = 0,
       !.pc = "idle"]

\* Mutant: the latencies of a finished resolve are kept for the next one.
resolve_finish_keeps_latencies(s, answer) ==
    LET text == IF answer = None THEN None ELSE to_text(answer)
    IN [s EXCEPT
          !.answer_cache = IF answer = None THEN @ ELSE put(@, s.req[1], s.req[2], text),
          !.last = [req |-> s.req, answer |-> text, nqueries |-> s.nqueries,
                    latency |-> sum(s.latencies)],
          !.frames = 0,
          !.pc = "idle"]

\* Mutant: the answer is stored under the name and type queried last.
resolve_finish_under_target(s, answer) ==
    LET text == IF answer = None THEN None ELSE to_text(answer)
    IN [s EXCEPT
          !.answer_cache = IF answer = None THEN @ ELSE put(@, s.host, s.rr_type, text),
          !.last = [req |-> s.req, answer |-> text, nqueries |-> s.nqueries,
                    latency |-> sum(s.latencies)],
          !.latencies = <<0>>,
          !.frames = 0,
          !.pc = "idle"]

\* resolve, lines 54-63: cache the rendering of a non-None answer under
\* (host, rr_type) of the command, print it, reset the latencies.
resolve_finish(s, answer) ==
    LET text == IF answer = None THEN None ELSE to_text(answer)
    IN [s EXCEPT
          !.answer_cache = IF answer = None THEN @ ELSE put(@, s.req[1], s.req[2], text),
          !.last = [req |-> s.req, answer |-> text, nqueries |-> s.nqueries,
                    latency |-> sum(s.latencies)],
          !.latencies = <<0>>,
          !.frames = 0,
          !.pc = "idle"]

\* Mutant: each _cname_chase appends its rr_set instead of inserting it first.
return_answer_appended(s, resp) ==
    resolve_finish([s EXCEPT !.chase = << >>],
                   [resp EXCEPT !.answer = @ \o s.chase])

\* A response returned by _handle_response travels up through the returns of
\* _resolve_domain; every suspended _cname_chase does
\* answer.answer.insert(0, rr_set) on it (line 140), innermost frame first.
return_answer(s, resp) ==
    resolve_finish([s EXCEPT !.chase = << >>],
                   [resp EXCEPT !.answer = s.chase \o @])

\* _resolve_domain returns None (lines 84-86).  A suspended _cname_chase then
\* evaluates None.answer (line 140); with no chase the None reaches resolve.
return_none(s) ==
    IF s.chase # << >>
    THEN raise(s, "AttributeError")
    ELSE resolve_finish(s, None)

\* A loop that passes over a nameserver whose address is not cached.
RECURSIVE try_nameserver_skipping(_, _)
try_nameserver_skipping(s, e) ==
    LET ns == s.deepest_match[2][NS]
    IN IF s.idx > Len(ns)
       THEN return_none([s EXCEPT !.latencies = Append(@, e)])
       ELSE IF ~has(s.referral_cache, ns[s.idx], A)
       THEN try_nameserver_skipping([s EXCEPT !.idx = @ + 1], e)
       ELSE [s EXCEPT !.pc = "query",
                      !.step_log = Append(@, <<ns[s.idx], s.referral_cache[ns[s.idx]][A][1]>>),
                      !.nqueries = @ + 1]

\* One turn of the for loop of _resolve_domain (lines 69-75) at position
\* s.idx, up to the call of query.udp; lines 81-86 when the list is exhausted.
try_nameserver(s, e) ==
    LET ns == s.deepest_match[2][NS]
    IN IF s.idx > Len(ns)
       THEN return_none([s EXCEPT !.latencies = Append(@, e)])
       ELSE IF ~has(s.referral_cache, ns[s.idx], A)
       THEN raise(s, "KeyError")
       ELSE IF Len(s.referral_cache[ns[s.idx]][A]) = 0
       THEN raise(s, "IndexError")
       ELSE [s EXCEPT !.pc = "query",
                      !.step_log = Append(@, <<ns[s.idx], s.referral_cache[ns[s.idx]][A][1]>>),
                      !.nqueries = @ + 1]

\* A call `below` frames deeper than the innermost _resolve_domain fits the stack.
fits(s, below) == BaseFrames + s.frames + below <= RecursionLimit

\* Entry of _resolve_domain(host, rr_type, deepest_match), lines 65-69.
\* Every caller has read deepest_match[1][rd.NS] for its print just before;
\* the call pushes one frame, which no return pops before resolve returns.
_resolve_domain(s, h, t, dm, e) ==
    IF NS \notin DOMAIN dm[2]
    THEN raise([s EXCEPT !.host = h, !.deepest_match = dm], "KeyError")
    ELSE IF ~fits(s, 1)
    THEN raise([s EXCEPT !.host = h, !.deepest_match = dm], "RecursionError")
    ELSE try_nameserver([s EXCEPT !.host = h, !.rr_type = t, !.deepest_match = dm,
                                  !.idx = 1, !.step_log = << >>,
                                  !.frames = @ + 1], e)

\* _cname_chase(rr_set), lines 133-139, called from _handle_response: both
\* frames stay on the stack while the nested _resolve_domain runs.
_cname_chase(s, rr_set, e) ==
    LET target == min_item(rr_set).val
    IN IF ~fits(s, 2)
       THEN raise(s, "RecursionError")
       ELSE _resolve_domain([s EXCEPT !.chase = Append(@, rr_set), !.frames = @ + 2],
                            target, A,
                            get_deepest_match(s.referral_cache, s.max_depth, target), e)

\* A descent that recurses on the referral point it already holds.
next_iteration_same_match(s, e) ==
    _resolve_domain(s, s.host, s.rr_type, s.deepest_match, e)

\* Mutant: a descent that gives up when the recomputed referral point is
\* the one it already holds.
next_iteration_detecting(s, e) ==
    LET dm == get_deepest_match(s.referral_cache, s.max_depth, s.host)
    IN IF dm[1] = s.deepest_match[1]
       THEN return_none(s)
       ELSE _resolve_domain(s, s.host, s.rr_type, dm, e)

\* Lines 94-97: no final answer, recompute the deepest match and recurse.
next_iteration(s, e) ==
    _resolve_domain(s, s.host, s.rr_type,
                    get_deepest_match(s.referral_cache, s.max_depth, s.host), e)

\* Lines 114-121: the list stored for one authority rrset.
RECURSIVE item_list(_, _)
item_list(items, i) ==
    IF i > Len(items) THEN << >>
    ELSE IF items[i].rdtype = SOA THEN item_list(items, i + 1)
    ELSE IF items[i].rdtype = NS THEN <<items[i].val>> \o item_list(items, i + 1)
    ELSE <<item_to_text(items[i])>> \o item_list(items, i + 1)

soa_in(rr_set) == \E i \in 1..Len(rr_set.items) : rr_set.items[i].rdtype = SOA

\* Lines 111-122 for the authority rrsets from position i on.
RECURSIVE ingest_authority(_, _, _)
ingest_authority(s, auth, i) ==
    IF i > Len(auth) THEN s
    ELSE ingest_authority(
           [s EXCEPT
              !.referral_cache = put(@, auth[i].name, auth[i].rdtype,
                                     item_list(auth[i].items, 1)),
              !.max_depth = IF auth[i].name \in DOMAIN s.referral_cache THEN @
                            ELSE update_max_depth(@, auth[i].name)],
           auth, i + 1)

\* Lines 127-130 for one additional rrset, items from position j on: the
\* entry is created, then [item.address] replaces the list of the rrset's type.
RECURSIVE ingest_items(_, _, _)
ingest_items(s, rr_set, j) ==
    IF j > Len(rr_set.items) \/ s.pc = "crashed" THEN s
    ELSE LET created == [s EXCEPT
                 !.referral_cache = IF rr_set.name \in DOMAIN @ THEN @
                                    ELSE (rr_set.name :> << >>) @@ @,
                 !.max_depth = IF rr_set.name \in DOMAIN s.referral_cache THEN @
                               ELSE update_max_depth(@, rr_set.name)]
         IN IF ~has_address(rr_set.items[j])
            THEN raise(created, "AttributeError")
            ELSE ingest_items(
                   [created EXCEPT !.referral_cache =
                        put(@, rr_set.name, rr_set.rdtype, <<rr_set.items[j].val>>)],
                   rr_set, j + 1)

\* Lines 126-130 for the additional rrsets from position i on.
RECURSIVE ingest_additional(_, _, _)
ingest_additional(s, addl, i) ==
    IF i > Len(addl) \/ s.pc = "crashed" THEN s
    ELSE ingest_additional(ingest_items(s, addl[i], 1), addl, i + 1)

\* Lines 103-108: the first CNAME rrset of the answer section, if any.
cname_rrsets(resp) == {i \in 1..Len(resp.answer) : resp.answer[i].rdtype = CNAME}
first_cname(resp) ==
    resp.answer[CHOOSE i \in cname_rrsets(resp) : \A j \in cname_rrsets(resp) : i <= j]

\* Mutant: the glue is ingested before the SOA check.
classify_authority_glue_first(s, resp, e) ==
    LET au == ingest_authority(s, resp.authority, 1)
        ad == ingest_additional(au, resp.additional, 1)
    IN IF ad.pc = "crashed" THEN [ad EXCEPT !.verdict = "raised"]
       ELSE IF \E i \in 1..Len(resp.authority) : soa_in(resp.authority[i])
       THEN return_answer([ad EXCEPT !.verdict = "final"], resp)
       ELSE next_iteration([ad EXCEPT !.verdict = "deeper"], e)

\* Lines 110-131 and 91-97: a response with rcode 0 and no answer.
classify_authority(s, resp, e) ==
    LET au == ingest_authority(s, resp.authority, 1)
    IN IF \E i \in 1..Len(resp.authority) : soa_in(resp.authority[i])
       THEN return_answer([au EXCEPT !.verdict = "final"], resp)
       ELSE LET ad == ingest_additional(au, resp.additional, 1)
            IN IF ad.pc = "crashed"
               THEN [ad EXCEPT !.verdict = "raised"]
               ELSE next_iteration([ad EXCEPT !.verdict = "deeper"], e)

\* Lines 103-108: a response with rcode 0 and an answer section.
classify_answer(s, resp, e) ==
    IF cname_rrsets(resp) # {}
    THEN _cname_chase([s EXCEPT !.verdict = "chase"], first_cname(resp), e)
    ELSE return_answer([s EXCEPT !.verdict = "final"], resp)

\* Mutant: the response code is not looked at.
_handle_response_any_rcode(s, resp, e) ==
    IF resp.answer # << >> THEN classify_answer(s, resp, e)
    ELSE classify_authority(s, resp, e)

\* _handle_response(response) and what _resolve_domain does with its result
\* (lines 89-97, 99-131).
_handle_response(s, resp, e) ==
    IF resp.rcode > 0 THEN return_answer([s EXCEPT !.verdict = "final"], resp)
    ELSE IF resp.answer # << >> THEN classify_answer(s, resp, e)
    ELSE classify_authority(s, resp, e)

\* query.udp returned `resp`: lines 76, 81-89.
on_response(s, resp, e) ==
    LET got == [s EXCEPT !.received = resp, !.latencies = Append(@, e)]
    IN IF ~fits(s, 1)
       THEN raise(got, "RecursionError")
       ELSE _handle_response(got, resp, e)

\* Mutant: the first timeout ends the loop.
on_timeout_break(s, e) == return_none([s EXCEPT !.idx = @ + 1, !.latencies = Append(@, e)])

\* Mutant: the next query goes to the nameserver that just timed out.
on_timeout_same(s, e) == try_nameserver(s, e)

\* query.udp raised Timeout: lines 77-80, then the next turn of the loop.
on_timeout(s, e) == try_nameserver([s EXCEPT !.idx = @ + 1], e)

\* Mutant: every resolve starts from the referral cache of __init__.
resolve_reseeding(s, h, t, e) ==
    LET s0 == [s EXCEPT !.req = <<h, t>>, !.nqueries = 0, !.ncalls = @ + 1,
                        !.chase = << >>, !.step_log = << >>, !.received = None,
                        !.verdict = "",
                        !.referral_cache = (root :> (NS :> <<a_root, b_root>>))
                                           @@ (a_root :> (A :> <<"198.41.0.4">>))
                                           @@ (b_root :> (A :> <<"199.9.14.201">>))]
    IN IF has(s.answer_cache, h, t)
       THEN [s0 EXCEPT !.last = [req |-> <<h, t>>, answer |-> s.answer_cache[h][t],
                                  nqueries |-> 0, latency |-> sum(s.latencies)],
                       !.latencies = <<0>>]
       ELSE _resolve_domain(s0, h, t,
                            get_deepest_match(s0.referral_cache, s.max_depth, h), e)

\* resolve(host, rr_type), lines 43-53 (and 61-63 on a cache hit).
resolve(s, h, t, e) ==
    LET s0 == [s EXCEPT !.req = <<h, t>>, !.nqueries = 0, !.ncalls = @ + 1,
                        !.chase = << >>, !.step_log = << >>, !.received = None,
                        !.verdict = ""]
    IN IF has(s.answer_cache, h, t)
       THEN [s0 EXCEPT !.last = [req |-> <<h, t>>, answer |-> s.answer_cache[h][t],
                                  nqueries |-> 0, latency |-> sum(s.latencies)],
                       !.latencies = <<0>>]
       ELSE _resolve_domain(s0, h, t,
                            get_deepest_match(s.referral_cache, s.max_depth, h), e)

----------------------------------------------------------------------------
(* The state machine *)

State == [answer_cache |-> answer_cache, referral_cache |-> referral_cache,
          max_depth |-> max_depth, latencies |-> latencies, pc |-> pc,
          error |-> error, req |-> req, host |-> host, rr_type |-> rr_type,
          deepest_match |-> deepest_match, idx |-> idx, received |-> received,
          verdict |-> verdict,
          chase |-> chase, step_log |-> step_log, nqueries |-> nqueries,
          frames |-> frames, last |-> last, ncalls |-> ncalls]

\* The program moves to state o, within mq queries and mc chase frames.
Becomes(o, mq, mc) ==
    /\ o.nqueries <= mq
    /\ Len(o.chase) <= mc
    /\ answer_cache' = o.answer_cache
    /\ referral_cache' = o.referral_cache
    /\ max_depth' = o.max_depth
    /\ latencies' = o.latencies
    /\ pc' = o.pc
    /\ error' = o.error
    /\ req' = o.req
    /\ host' = o.host
    /\ rr_type' = o.rr_type
    /\ deepest_match' = o.deepest_match
    /\ idx' = o.idx
    /\ received' = o.received
    /\ verdict' = o.verdict
    /\ chase' = o.chase
    /\ step_log' = o.step_log
    /\ nqueries' = o.nqueries
    /\ frames' = o.frames
    /\ last' = o.last
    /\ ncalls' = o.ncalls

\* Resolver.__init__, lines 11-18.
Init ==
    /\ answer_cache = << >>
    /\ referral_cache = (root :> (NS :> <<a_root, b_root>>))
                        @@ (a_root :> (A :> <<"198.41.0.4">>))
                        @@ (b_root :> (A :> <<"199.9.14.201">>))
    /\ max_depth = update_max_depth(update_max_depth(update_max_depth(0, root), a_root), b_root)
    /\ latencies = <<0>>
    /\ pc = "idle"
    /\ error = ""
    /\ req = << >>
    /\ host = << >>
    /\ rr_type = ""
    /\ deepest_match = NoMatch
    /\ idx = 0
    /\ received = None
    /\ verdict = ""
    /\ chase = << >>
    /\ step_log = << >>
    /\ nqueries = 0
    /\ frames = 0
    /\ last = NoCall
    /\ ncalls = 0

\* execute_command("resolve <host> <rr_type>").
Resolve(h, t, n, mq, mc) ==
    /\ pc = "idle"
    /\ ncalls < n
    /\ \E e \in Elapsed : Becomes(resolve(State, h, t, e), mq, mc)

\* The pending query.udp times out.
Timeout(mq, mc) ==
    /\ pc = "query"
    /\ \E e \in Elapsed : Becomes(on_timeout(State, e), mq, mc)

\* The pending query.udp returns a response.
Respond(r, mq, mc) ==
    /\ pc = "query"
    /\ \E e \in Elapsed : Becomes(on_response(State, r, e), mq, mc)

Next ==
    \/ \E q \in Requests : Resolve(q[1], q[2], MaxResolves, MaxQueries, MaxChase)
    \/ Timeout(MaxQueries, MaxChase)
    \/ \E r \in Responses : Respond(r, MaxQueries, MaxChase)

Spec == Init /\ [][Next]_vars

NextCalls ==
    \/ \E q \in Requests : Resolve(q[1], q[2], MaxCalls, MaxCallQueries, MaxCallChase)
    \/ Timeout(MaxCallQueries, MaxCallChase)
    \/ \E r \in Responses : Respond(r, MaxCallQueries, MaxCallChase)

SpecCalls == Init /\ [][NextCalls]_vars

----------------------------------------------------------------------------
(* Vocabulary of the properties *)

\* a is an ancestor of n: a's labels are a suffix of n's (a = n included).
IsAncestor(a, n) == Len(a) >= 1 /\ Len(a) <= Len(n) /\ Suffix(n, Len(a)) = a

\* The entry of `cache` under the longest ancestor of n present in it.
LongestAncestorEntry(cache, n) ==
    LET a == CHOOSE x \in DOMAIN cache :
                 /\ IsAncestor(x, n)
                 /\ \A y \in DOMAIN cache : IsAncestor(y, n) => Len(y) <= Len(x)
    IN <<a, cache[a]>>

RootHints == (NS :> <<a_root, b_root>>)

\* C2: in every reachable state and for every name, the deepest match of the
\* referral cache is the entry under the longest ancestor of the name that is
\* present in the cache (the root entry when no other ancestor is present),
\* and the referral point a running descent step works on is that entry for
\* the step's host.
C2_DeepestMatch ==
    /\ \A n \in Names :
          /\ get_deepest_match(referral_cache, max_depth, n)
                = LongestAncestorEntry(referral_cache, n)
          /\ (\A y \in DOMAIN referral_cache \ {root} : ~IsAncestor(y, n))
                => get_deepest_match(referral_cache, max_depth, n)
                      = <<root, referral_cache[root]>>
    /\ pc = "query" => deepest_match = LongestAncestorEntry(referral_cache, host)

\* C2 witness: a descent step for a 4- or 5-label host runs from the entry of
\* ex.com. while the shorter ancestors com. and the root are cached too.
C2_Witness ==
    /\ pc = "query"
    /\ deepest_match[1] = ex_com
    /\ host \in {www, deep}
    /\ {root, com, ex_com} \subseteq DOMAIN referral_cache

\* C3 (as claimed): a lookup made on the cache as __init__ left it obtains the
\* root entry holding exactly the two seeded root servers, whatever the name,
\* and both seeded addresses are in the cache.
C3_RootSeed ==
    (ncalls <= 1 /\ last = NoCall /\ received = None) =>
        /\ referral_cache[a_root][A] = <<"198.41.0.4">>
        /\ referral_cache[b_root][A] = <<"199.9.14.201">>
        /\ ncalls = 1 => deepest_match = <<root, RootHints>>

\* A resolve command is started by this step.
Starts == ncalls' = ncalls + 1

\* A resolve command returns in this step (it printed its final response).
Finishes == pc' = "idle" /\ (pc = "query" \/ Starts)

\* C1 (as claimed): a resolve of the (name, type) of the resolve finished just
\* before it prints the identical answer and issues no query, whatever the
\* transport did.
C1_Idempotent ==
    [][(Finishes /\ ncalls' >= 2 /\ req' = last.req)
          => (last'.answer = last.answer /\ last'.nqueries = 0)]_vars

\* C1 (amended): when a resolve returned a non-None answer, the next resolve
\* of the same (name, type) returns at once with the identical answer and
\* without any query.
C1_IdempotentOnAnswer ==
    [][(Starts /\ req' = last.req /\ last.answer # None)
          => (pc' = "idle" /\ last'.answer = last.answer /\ last'.req = last.req
              /\ nqueries' = 0 /\ last'.nqueries = 0)]_vars

\* C1 witness: the second command repeated the first, which had needed
\* queries, and was answered from the answer cache.
C1_Witness ==
    /\ ncalls = 2
    /\ pc = "idle"
    /\ last.answer # None
    /\ last.nqueries = 0
    /\ has(answer_cache, req[1], req[2])
    /\ answer_cache[req[1]][req[2]] = last.answer

\* query.udp returns a response in this step (a timeout moves the loop on).
Receives == pc = "query" /\ idx' # idx + 1

\* The pending query.udp times out in this step.
TimesOut == pc = "query" /\ idx' = idx + 1

\* The nameserver list of the running descent step, and the queries that
\* go to its first k nameservers in list order, each at its first address.
ns_list == deepest_match[2][NS]
QueriesTo(k) == [i \in 1..k |-> <<ns_list[i], referral_cache[ns_list[i]][A][1]>>]

\* C4: a descent step whose last candidate times out has sent exactly one
\* query to each of the N candidates, in list order; with no CNAME chase
\* pending the resolve ends with the None result; the answer cache is not
\* written.  Conversely a resolve ends with None only after all N queries.
C4_RetryThenFail ==
    [][/\ (TimesOut /\ idx = Len(ns_list)) =>
              /\ step_log' = step_log
              /\ step_log = QueriesTo(Len(ns_list))
              /\ answer_cache' = answer_cache
              /\ chase = << >> => (pc' = "idle" /\ last'.answer = None /\ last'.req = req)
       /\ (pc = "query" /\ pc' = "idle" /\ last'.answer = None) =>
              /\ TimesOut
              /\ step_log' = QueriesTo(Len(ns_list))
              /\ answer_cache' = answer_cache]_vars

\* C4 witness: both seeded root servers were queried, in order, both timed
\* out, and the first resolve ended with None and an empty answer cache.
C4_Witness ==
    /\ pc = "idle"
    /\ ncalls = 1
    /\ last.answer = None
    /\ step_log = <<<<a_root, "198.41.0.4">>, <<b_root, "199.9.14.201">>>>
    /\ last.nqueries = 2
    /\ answer_cache = << >>

\* The record sets of a section that are of type t.
OfType(section, t) == {i \in 1..Len(section) : section[i].rdtype = t}
HasSOA(section) == \E i \in 1..Len(section) : soa_in(section[i])
Targets(rr_set) == [i \in 1..Len(rr_set.items) |-> rr_set.items[i].val]

\* C5 (as claimed): a response with rcode 0, no answer, an NS record set and
\* no SOA in its authority section leaves the targets of the NS record set
\* in the referral cache under its owner, is classified "need deeper
\* referral" and leaves the answer cache alone.
C5_ReferralIngestion ==
    [][(/\ Receives
        /\ received'.rcode = 0
        /\ received'.answer = << >>
        /\ OfType(received'.authority, NS) # {}
        /\ ~HasSOA(received'.authority))
          => /\ \A i \in OfType(received'.authority, NS) :
                   /\ has(referral_cache', received'.authority[i].name, NS)
                   /\ referral_cache'[received'.authority[i].name][NS]
                         = Targets(received'.authority[i])
             /\ verdict' = "deeper"
             /\ answer_cache' = answer_cache]_vars

\* The final response as resolve renders it: the response with the CNAME
\* record sets of the chase in front of its answer section.
Rendered(resp, cnames) == to_text([resp EXCEPT !.answer = cnames \o @])

\* C6: a response with rcode 0, no answer and an SOA in its authority section
\* is the final result whatever NS record sets come with it: the resolve
\* returns in the same step without another query, and no record set of the
\* additional section gets into the referral cache.
C6_NegativeFinal ==
    [][(/\ Receives
        /\ received'.rcode = 0
        /\ received'.answer = << >>
        /\ HasSOA(received'.authority))
          => /\ verdict' = "final"
             /\ pc' = "idle"
             /\ nqueries' = nqueries
             /\ last'.answer = Rendered(received', chase)
             /\ \A i \in 1..Len(received'.additional) :
                   LET n == received'.additional[i].name
                   IN (\A j \in 1..Len(received'.authority) :
                           received'.authority[j].name # n)
                      => /\ (n \in DOMAIN referral_cache') = (n \in DOMAIN referral_cache)
                         /\ n \in DOMAIN referral_cache
                               => referral_cache'[n] = referral_cache[n]]_vars

\* C6 witness: the negative response that also carries an NS record set and
\* glue ended the resolve; the NS record set is cached, the glue is not.
C6_Witness ==
    /\ pc = "idle"
    /\ received = r_negative
    /\ verdict = "final"
    /\ last.answer = to_text(r_negative)
    /\ has(referral_cache, ex_com, NS)
    /\ ns_com \notin DOMAIN referral_cache

\* C7: a response with rcode 0 and a CNAME record set in its answer starts a
\* fresh descent for (smallest CNAME target, A) from the deepest match of the
\* target, and whatever response ends the resolve is returned with the CNAME
\* record sets of the chase, in chase order, in front of its answer section.
C7_CnameChase ==
    [][/\ (/\ Receives
           /\ received'.rcode = 0
           /\ cname_rrsets(received') # {})
             => LET rr_set == first_cname(received')
                    target == min_item(rr_set).val
                IN /\ verdict' = "chase"
                   /\ \A i \in 1..Len(rr_set.items) :
                         Rank(target) <= Rank(rr_set.items[i].val)
                   /\ host' = target
                   /\ deepest_match' = LongestAncestorEntry(referral_cache, target)
                   /\ referral_cache' = referral_cache
                   /\ pc' = "query" =>
                         /\ rr_type' = A
                         /\ chase' = Append(chase, rr_set)
                         /\ step_log' = QueriesTo(1)'
                         /\ nqueries' = nqueries + 1
       /\ (Receives /\ pc' = "idle") =>
              /\ last'.answer = Rendered(received', chase)
              /\ last'.req = req]_vars

\* C7 witness: alias -> ex.com. -> www.ex.com. -> A; the answer section is the
\* two CNAME record sets in chase order, then the A record set.
C7_Witness ==
    /\ pc = "idle"
    /\ last.answer # None
    /\ last.answer.text.answer = <<cname_alias, cname_ex, a_www>>
    /\ last.nqueries = 3

\* C8: a response with a non-zero rcode is itself the final result: the
\* resolve returns it in the same step, without another query and without
\* any change to the referral cache.
C8_ErrorPropagation ==
    [][(Receives /\ received'.rcode > 0)
          => /\ verdict' = "final"
             /\ pc' = "idle"
             /\ last'.answer = Rendered(received', chase)
             /\ last'.answer # None
             /\ referral_cache' = referral_cache
             /\ max_depth' = max_depth
             /\ nqueries' = nqueries]_vars

\* C8 witness: an error response with a CNAME answer, an NS authority and
\* glue ended the resolve as it came; neither ex.com. nor the glue is cached.
C8_Witness ==
    /\ pc = "idle"
    /\ received = r_error
    /\ last.answer = to_text(r_error)
    /\ last.nqueries = 1
    /\ ex_com \notin DOMAIN referral_cache
    /\ ns_com \notin DOMAIN referral_cache

\* C9 (as claimed): every entry of the answer cache renders a response with
\* response code zero.
C9_NoErrorCached ==
    \A n \in DOMAIN answer_cache : \A t \in DOMAIN answer_cache[n] :
        answer_cache[n][t].text.rcode = 0

\* C9 (amended): the answer cache changes only when a resolve returns a
\* non-None result, and then by the rendering of that result (an upstream
\* error response included) under the requested (name, type); a resolve that
\* returns None or dies of an exception stores nothing.
C9_CachedOnNonNull ==
    [][/\ (answer_cache' # answer_cache) =>
              /\ Finishes
              /\ last'.answer # None
              /\ answer_cache' = put(answer_cache, req'[1], req'[2], last'.answer)
       /\ (Finishes /\ last'.nqueries > 0 /\ last'.answer # None) =>
              /\ has(answer_cache', req'[1], req'[2])
              /\ answer_cache'[req'[1]][req'[2]] = last'.answer
       /\ (Finishes /\ last'.answer = None) => answer_cache' = answer_cache
       /\ pc' = "crashed" => answer_cache' = answer_cache]_vars

\* C9 witness: an upstream error response is in the answer cache.
C9_Witness ==
    \E n \in DOMAIN answer_cache : \E t \in DOMAIN answer_cache[n] :
        answer_cache[n][t].text.rcode > 0

\* C10 (as claimed): when every candidate of a descent step run for a CNAME
\* target has timed out, the resolve ends with the None result reported for
\* the request, and the answer cache is not written.
C10_ChaseFailure ==
    [][(TimesOut /\ idx = Len(ns_list) /\ chase # << >>)
          => /\ pc' = "idle"
             /\ last'.req = req
             /\ last'.answer = None
             /\ answer_cache' = answer_cache]_vars

----------------------------------------------------------------------------
(* C11: missing glue *)

\* The for loop of the running descent step stands at a nameserver of the
\* list for which the referral cache holds no address.
AtMissingGlue ==
    /\ pc # "idle"
    /\ NS \in DOMAIN deepest_match[2]
    /\ idx \in 1..Len(ns_list)
    /\ ~has(referral_cache, ns_list[idx], A)

\* C11: when the loop of a descent step reaches a nameserver without a cached
\* address, the step fails there (the KeyError of line 70): the nameserver is
\* not passed over for a later candidate, so the queries of the step are
\* exactly those to the candidates before it; the answer cache is not
\* written; and nothing follows the failure, in particular no further query.
\* Hence a query is only ever pending at a nameserver all of whose
\* predecessors in the list have a cached address.
C11_MissingGlue ==
    [][/\ pc # "crashed"
       /\ pc' = "query" => \A i \in 1..idx' : has(referral_cache', ns_list'[i], A)
       /\ AtMissingGlue' =>
             /\ pc' = "crashed"
             /\ error' = "KeyError"
             /\ step_log' = (QueriesTo(idx - 1))'
             /\ nqueries' = IF Starts THEN 0 ELSE nqueries
             /\ answer_cache' = answer_cache]_vars

\* The first nameserver of the list has no cached address while the second
\* one has: the resolve failed without a query.
C11_Witness ==
    /\ AtMissingGlue
    /\ pc = "crashed"
    /\ idx = 1
    /\ Len(ns_list) = 2
    /\ has(referral_cache, ns_list[2], A)
    /\ nqueries = 0

----------------------------------------------------------------------------
(* C12: descent on well-formed delegation *)

MaxWFResolves == 1   \* resolve commands per run
MaxWFChase == 1      \* CNAME answers the transport gives within one resolve

\* A referral to ex.com. with an address for each of its nameservers.
glue_ns_ex == RRset(ns_ex, A, <<Item(A, "10.0.0.3")>>)
r_delegation == Message(0, << >>, <<ns_of_ex>>, <<glue_ns_com, glue_ns_ex>>)

\* The commands and the responses of the runs on well-formed delegation.
WFRequests == {<<www, A>>, <<alias, TXT>>}
WFResponses == {r_answer, r_negative, r_cname2, r_referral, r_badglue, r_delegation}

\* _handle_response takes `resp` for a referral: lines 100, 103, 123.
IsReferral(resp) == resp.rcode = 0 /\ resp.answer = << >> /\ ~HasSOA(resp.authority)

\* rr_set comes with glue in resp: an address record set for each target.
WithGlue(resp, rr_set) ==
    \A i \in 1..Len(rr_set.items) :
        \E j \in OfType(resp.additional, A) :
            /\ resp.additional[j].name = rr_set.items[i].val
            /\ resp.additional[j].items # << >>

\* A referral given to the pending query names, with glue, a zone that is an
\* ancestor of the query name and longer than the referral point in use.
WellFormed(resp) ==
    IsReferral(resp) =>
        /\ OfType(resp.authority, NS) # {}
        /\ \A i \in OfType(resp.authority, NS) :
              /\ IsAncestor(resp.authority[i].name, host)
              /\ Len(resp.authority[i].name) > Len(deepest_match[1])
              /\ WithGlue(resp, resp.authority[i])

\* The pending query.udp returns a response that is well-formed for it.
RespondWF(r) == WellFormed(r) /\ Respond(r, RecursionLimit, MaxWFChase)

\* The pending query.udp returns or raises Timeout (timeout=3, line 75).
Returns ==
    \/ Timeout(RecursionLimit, MaxWFChase)
    \/ \E r \in WFResponses : RespondWF(r)

NextWF ==
    \/ \E q \in WFRequests : Resolve(q[1], q[2], MaxWFResolves, RecursionLimit, MaxWFChase)
    \/ Returns

SpecWF == Init /\ [][NextWF]_vars /\ WF_vars(Returns)

\* C12: on well-formed delegation every "need a deeper referral" step
\* recomputes a deepest match that is an ancestor of the query name and
\* strictly longer than the one before, and every resolve that has a query
\* pending eventually ends: it returns or fails.
C12_Narrowing ==
    /\ [][(Receives /\ verdict' = "deeper") =>
              /\ IsAncestor(deepest_match'[1], host)
              /\ host' = host
              /\ Len(deepest_match'[1]) > Len(deepest_match[1])]_vars
    /\ (pc = "query") ~> (pc # "query")

\* A resolve of www.ex.com. was referred from the root to com. and from
\* there to ex.com., whose nameserver answered.
C12_Witness ==
    /\ pc = "idle"
    /\ last.req = <<www, A>>
    /\ last.answer # None
    /\ deepest_match[1] = ex_com
    /\ verdict = "final"
    /\ nqueries >= 3

----------------------------------------------------------------------------
(* C13: the referral point has an NS record set *)

\* C13 (as claimed): in every state the deepest match of every name has an
\* NS record set, so that no descent fails reading the NS set of its
\* referral point (lines 52, 96, 138).
C13_MatchHasNS ==
    /\ \A n \in Names : NS \in DOMAIN get_deepest_match(referral_cache, max_depth, n)[2]
    /\ ~(pc = "crashed" /\ error = "KeyError" /\ NS \notin DOMAIN deepest_match[2])

----------------------------------------------------------------------------
(* C14: order of the queries of a descent step *)

\* query.udp returned a response in this step, and a query is pending again.
AnsweredThenQueries == pc = "query" /\ pc' = "query" /\ Len(latencies') > Len(latencies)

\* C14: while a query is pending, the queries of the running descent step
\* are those to the first idx nameservers of its NS list, in list order and
\* one each, the last of them being the pending one; a step sends at most one
\* query at a time; a further nameserver of the same list is queried only
\* when the pending query timed out (no response was received); and after a
\* response the next query, if any, is the first one of a new invocation of
\* _resolve_domain.
C14_QueryOrder ==
    [][/\ pc' = "query" =>
             /\ idx' \in 1..Len(ns_list')
             /\ step_log' = (QueriesTo(idx))'
       /\ nqueries' <= (IF Starts THEN 0 ELSE nqueries) + 1
       /\ (pc = "query" /\ pc' = "query" /\ frames' = frames) =>
             /\ latencies' = latencies
             /\ received' = received
             /\ deepest_match' = deepest_match
             /\ idx' = idx + 1
             /\ step_log' = Append(step_log, <<ns_list[idx + 1],
                                               referral_cache[ns_list[idx + 1]][A][1]>>)
       /\ AnsweredThenQueries =>
             /\ frames' > frames
             /\ idx' = 1
             /\ Len(step_log') = 1]_vars

\* The first root server timed out, the second one gave a referral, and the
\* query to the first nameserver of the referred zone is pending.
C14_Witness ==
    /\ pc = "query"
    /\ frames = 2
    /\ nqueries = 3
    /\ idx = 1
    /\ step_log = QueriesTo(1)
    /\ Len(latencies) = 2

----------------------------------------------------------------------------
(* C15: cache hit and latencies *)

\* The resolve entered in this step finds its (name, type) in the answer cache.
CacheHit == Starts /\ has(answer_cache, req'[1], req'[2])

\* C15: a resolve whose (name, type) is in the answer cache returns in the
\* same step with the cached rendering, issues no query, leaves the answer
\* cache and the referral cache as they are and reports the latency sum 0;
\* and every resolve is entered with the latency list [0].
C15_CacheHit ==
    [][/\ Starts => latencies = <<0>>
       /\ CacheHit =>
             /\ pc' = "idle"
             /\ last'.req = req'
             /\ last'.answer = answer_cache[req'[1]][req'[2]]
             /\ last'.nqueries = 0
             /\ nqueries' = 0
             /\ last'.latency = 0
             /\ latencies' = <<0>>
             /\ answer_cache' = answer_cache
             /\ referral_cache' = referral_cache]_vars

\* The second resolve was answered from the cache that the first one, which
\* took time on the network, had filled.
C15_Witness ==
    /\ ncalls = 2
    /\ pc = "idle"
    /\ has(answer_cache, last.req[1], last.req[2])
    /\ last.answer = answer_cache[last.req[1]][last.req[2]]
    /\ last.nqueries = 0
    /\ last.latency = 0
    /\ latencies = <<0>>

----------------------------------------------------------------------------
(* C16: glue ingestion *)

\* C16 (as claimed): once a referral is classified, the referral cache holds
\* for every additional A record set, under its owner and type A, the list of
\* the addresses of the record set in order; and additional record sets of
\* other types leave the referral cache as it was.
C16_GlueIngestion ==
    [][(Receives /\ IsReferral(received') /\ verdict' = "deeper") =>
          LET ad == received'.additional
          IN /\ \A j \in OfType(ad, A) :
                   /\ has(referral_cache', ad[j].name, A)
                   /\ referral_cache'[ad[j].name][A] = Targets(ad[j])
             /\ \A j \in 1..Len(ad) :
                   ad[j].rdtype # A =>
                      /\ has(referral_cache', ad[j].name, ad[j].rdtype)
                            = has(referral_cache, ad[j].name, ad[j].rdtype)
                      /\ has(referral_cache, ad[j].name, ad[j].rdtype) =>
                            referral_cache'[ad[j].name][ad[j].rdtype]
                               = referral_cache[ad[j].name][ad[j].rdtype]]_vars

----------------------------------------------------------------------------
(* C17: insertion into the referral cache *)

\* The values of an authority record set as the cache lists them: the targets
\* of NS records, the text of records of other types, nothing for SOA records.
StoredValues(rr_set) ==
    LET kept == SelectSeq(rr_set.items, LAMBDA item : item.rdtype # SOA)
    IN [k \in 1..Len(kept) |->
           IF kept[k].rdtype = NS THEN kept[k].val ELSE item_to_text(kept[k])]

\* `cache` with the list of (owner, type) of rr_set replaced by its values,
\* and nothing else changed.
Overwritten(cache, rr_set) ==
    LET types == IF rr_set.name \in DOMAIN cache THEN DOMAIN cache[rr_set.name] ELSE {}
    IN [n \in DOMAIN cache \cup {rr_set.name} |->
           IF n # rr_set.name THEN cache[n]
           ELSE [t \in types \cup {rr_set.rdtype} |->
                    IF t = rr_set.rdtype THEN StoredValues(rr_set) ELSE cache[n][t]]]

RECURSIVE OverwrittenBy(_, _, _)
OverwrittenBy(cache, section, i) ==
    IF i > Len(section) THEN cache
    ELSE OverwrittenBy(Overwritten(cache, section[i]), section, i + 1)

\* The owners of the additional record sets that _handle_response goes on to
\* ingest after the authority section of resp.
GlueOwners(resp) ==
    IF HasSOA(resp.authority) THEN {}
    ELSE {resp.additional[j].name : j \in 1..Len(resp.additional)}

----------------------------------------------------------------------------
(* C18: growth of the referral cache *)

\* C18: no step removes a name from the referral cache, nor a record type
\* from the entry of a name; the root entry is present with an NS record set
\* in every state, so that get_deepest_match finds an entry for every name.
C18_Monotone ==
    [][/\ \A n \in DOMAIN referral_cache :
             /\ n \in DOMAIN referral_cache'
             /\ DOMAIN referral_cache[n] \subseteq DOMAIN referral_cache'[n]
       /\ has(referral_cache, root, NS)
       /\ has(referral_cache', root, NS)
       /\ \A n \in Names : IsAncestor(get_deepest_match(referral_cache', max_depth', n)[1], n)]_vars

\* The NS list of the root was replaced and entries for com. and its
\* nameserver were added; the seeded names are still there.
C18_Witness ==
    /\ referral_cache[root][NS] = <<b_root>>
    /\ {root, a_root, b_root, com, ns_com} \subseteq DOMAIN referral_cache
    /\ {NS, DS} \subseteq DOMAIN referral_cache[com]

----------------------------------------------------------------------------
(* C20: writes of the answer cache *)

\* C20: every entry of the answer cache stays, with its value; an entry is
\* added only by the step in which a resolve returns, and then it is the
\* single entry of the (name, type) of that resolve command, not of a name
\* or type queried on the way.
C20_WriteDiscipline ==
    [][/\ \A n \in DOMAIN answer_cache :
             /\ n \in DOMAIN answer_cache'
             /\ \A t \in DOMAIN answer_cache[n] :
                   /\ t \in DOMAIN answer_cache'[n]
                   /\ answer_cache'[n][t] = answer_cache[n][t]
       /\ \A n \in DOMAIN answer_cache' :
             \A t \in DOMAIN answer_cache'[n] :
                ~has(answer_cache, n, t) =>
                   /\ Finishes
                   /\ <<n, t>> = req'
                   /\ <<n, t>> = last'.req
       /\ ~Finishes => answer_cache' = answer_cache]_vars

\* The second resolve, of (al.ex.com., TXT), was answered after a CNAME
\* chase that queried another name for type A: the cache holds its entry
\* and the entry of the first resolve, nothing under the chased name.
C20_Witness ==
    /\ ncalls = 2
    /\ pc = "idle"
    /\ last.req = <<alias, TXT>>
    /\ host = ex_com
    /\ rr_type = A
    /\ DOMAIN answer_cache = {www, alias}
    /\ DOMAIN answer_cache[alias] = {TXT}
    /\ DOMAIN answer_cache[www] = {A}

----------------------------------------------------------------------------
(* C19: delegation that does not narrow *)

\* The state after lines 110-130 have ingested resp.
Ingested(resp) ==
    ingest_additional(ingest_authority(State, resp.authority, 1), resp.additional, 1)

\* resp is a referral whose records, once ingested, give the query name no
\* longer deepest match than the referral point in use.
NonNarrowing(resp) ==
    /\ IsReferral(resp)
    /\ Ingested(resp).pc # "crashed"
    /\ Len(get_deepest_match(Ingested(resp).referral_cache,
                             Ingested(resp).max_depth, host)[1])
          <= Len(deepest_match[1])

\* The nameservers keep answering, always with a referral that does not narrow.
RespondLoop(r) == NonNarrowing(r) /\ Respond(r, RecursionLimit, MaxChase)

NextLoop ==
    \/ \E q \in Requests : Resolve(q[1], q[2], MaxResolves, RecursionLimit, MaxChase)
    \/ \E r \in Responses : RespondLoop(r)

SpecLoop == Init /\ [][NextLoop]_vars

============================================================================
